---- MODULE Spec2Model ----
(***************************************************************************)
(* Model of openSprinkler.py: the codec functions (OSDateTime, SunTime,    *)
(* IPAddress, Stations, Nop, RainDelaySet), the two descriptor registries  *)
(* of Controller, Controller.__getattr__ / __setattr__ and                 *)
(* OpenSprinkler._json_get.                                                *)
(*                                                                         *)
(* Python values are tagged records [t |-> <type>, ...].  TLC integers are *)
(* 32-bit signed, so an integer that may reach 2^32-1 (the packed          *)
(* external IP) is held as little-endian 16-bit limbs, and a float number  *)
(* of seconds is held exactly as [whole, micro] = whole + micro/10^6.      *)
(***************************************************************************)
EXTENDS Integers, Sequences, FiniteSets, TLC

VARIABLES
  attrs,   \* Controller instance __dict__: attribute name -> value
  last,    \* the last Controller get/set call: inputs, requests, outcome
  codec    \* the last direct call of a codec function: inputs and result

vars == <<attrs, last, codec>>

---------------------------------------------------------------------------
(* Python values *)

NoneV == [t |-> "NoneType"]
IntV(n) == [t |-> "int", v |-> n]
WideV(limbs) == [t |-> "int", limbs |-> limbs]
BoolV(b) == [t |-> "bool", v |-> b]
StrV(s) == [t |-> "str", v |-> s]
TupleV(s) == [t |-> "tuple", v |-> s]
DictV(keys, items) == [t |-> "dict", keys |-> keys, items |-> items]
ObjV(cls) == [t |-> "object", cls |-> cls]
DateTimeV(day, hour, minute, second, microsecond) ==
  [t |-> "datetime", day |-> day, hour |-> hour, minute |-> minute,
   second |-> second, microsecond |-> microsecond]

EmptyDict == DictV(<<>>, <<>>)

\* Outcome of a Python call: a returned value or a raised exception.
Return(v) == [kind |-> "return", value |-> v]
Raise(exc, args) == [kind |-> "raise", exc |-> exc, args |-> args]

\* Python truth value testing (bool(x), `not x`, `if x:`).
Truthy(x) ==
  CASE x.t = "NoneType" -> FALSE
    [] x.t = "bool" -> x.v
    [] x.t = "int" -> IF "limbs" \in DOMAIN x
                      THEN \E i \in DOMAIN x.limbs : x.limbs[i] # 0
                      ELSE x.v # 0
    [] x.t = "str" -> x.v # ""
    [] x.t = "tuple" -> Len(x.v) > 0
    [] x.t = "dict" -> Len(x.keys) > 0
    [] x.t = "datetime" -> TRUE
    [] x.t = "object" -> TRUE

---------------------------------------------------------------------------
(* Decimal formatting: '%d' % n and str(n) *)

DigitChars == <<"0", "1", "2", "3", "4", "5", "6", "7", "8", "9">>

RECURSIVE FmtNat(_)
FmtNat(n) ==
  IF n < 10 THEN DigitChars[n + 1]
  ELSE FmtNat(n \div 10) \o DigitChars[(n % 10) + 1]

FmtD(n) == IF n < 0 THEN "-" \o FmtNat(-n) ELSE FmtNat(n)

---------------------------------------------------------------------------
(* Bit operations on non-negative integers *)

RECURSIVE BitAnd(_, _)
BitAnd(a, b) ==
  IF a = 0 \/ b = 0 THEN 0
  ELSE (a % 2) * (b % 2) + 2 * BitAnd(a \div 2, b \div 2)

Shl(a, n) == a * (2 ^ n)

\* limbs >> n for an integer held as little-endian 16-bit limbs.
LimbAt(limbs, i) == IF i \in DOMAIN limbs THEN limbs[i] ELSE 0
ShrLimbs(limbs, n) ==
  LET ws == n \div 16
      bs == n % 16
  IN [i \in DOMAIN limbs |->
        ((LimbAt(limbs, i + ws) \div (2 ^ bs))
         + ((LimbAt(limbs, i + ws + 1) * (2 ^ (16 - bs))) % 65536)) % 65536]

\* limbs & 0xFF..: the mask fits one limb, so only the lowest limb survives.
AndLow(limbs, mask) == BitAnd(limbs[1], mask)

\* The value of an integer whose limbs are known to fit a TLC integer.
LimbsValue(limbs) ==
  LET RECURSIVE val(_)
      val(i) == IF i > Len(limbs) THEN 0 ELSE limbs[i] + 65536 * val(i + 1)
  IN val(1)

---------------------------------------------------------------------------
(* datetime / timedelta arithmetic, as the datetime module does it *)

\* timedelta(days, seconds, microseconds), normalised so that
\* 0 <= seconds < 86400 and 0 <= microseconds < 10^6.
TimeDelta(days, seconds, microseconds) ==
  LET s2 == seconds + (microseconds \div 1000000)
  IN [t |-> "timedelta",
      days |-> days + (s2 \div 86400),
      seconds |-> s2 % 86400,
      microseconds |-> microseconds % 1000000]

TimeDeltaNeg(td) == TimeDelta(-td.days, -td.seconds, -td.microseconds)

SecondOfDay(dt) == dt.hour * 3600 + dt.minute * 60 + dt.second

\* datetime + timedelta
DateTimeAdd(dt, td) ==
  LET sum == TimeDelta(dt.day + td.days, SecondOfDay(dt) + td.seconds,
                       dt.microsecond + td.microseconds)
  IN DateTimeV(sum.days, sum.seconds \div 3600, (sum.seconds % 3600) \div 60,
               sum.seconds % 60, sum.microseconds)

\* datetime - timedelta
DateTimeSub(dt, td) == DateTimeAdd(dt, TimeDeltaNeg(td))

\* datetime - datetime
DateTimeDiff(a, b) ==
  TimeDelta(a.day - b.day, SecondOfDay(a) - SecondOfDay(b),
            a.microsecond - b.microsecond)

\* timedelta.total_seconds(): a float, held exactly as whole + micro/10^6.
TotalSeconds(td) ==
  [whole |-> td.days * 86400 + td.seconds, micro |-> td.microseconds]

\* int(x / d) for a number x of seconds and d > 0: the quotient truncated
\* toward zero.
IntOfQuotient(x, d) ==
  IF x.whole >= 0 THEN x.whole \div d
  ELSE IF x.micro = 0 THEN -((-x.whole) \div d)
  ELSE -((-x.whole - 1) \div d)

---------------------------------------------------------------------------
(* The codec functions.  `now` is what datetime.datetime.now() returns     *)
(* during the call.                                                        *)

\* datetime.datetime.fromtimestamp(ts), with the local zone taken as UTC.
OSDateTime(ts) ==
  DateTimeAdd(DateTimeV(719163, 0, 0, 0, 0), TimeDelta(0, ts.v, 0))

\* SunTime without the now.replace(...) to midnight.
SunTime_fromNow(minutes, now) ==
  IF minutes.v = 0 THEN NoneV
  ELSE DateTimeSub(DateTimeAdd(now, TimeDelta(1, 0, 0)),
                   TimeDelta(0, minutes.v * 60, 0))

SunTime(minutes, now) ==
  IF minutes.v = 0 THEN NoneV
  ELSE LET midnight == [now EXCEPT !.hour = 0, !.minute = 0, !.second = 0,
                                   !.microsecond = 0]
       IN DateTimeSub(DateTimeAdd(midnight, TimeDelta(1, 0, 0)),
                      TimeDelta(0, minutes.v * 60, 0))

\* IPAddress with the bytes taken least significant first.
IPAddress_lowFirst(ip) ==
  StrV(FmtD(AndLow(ip.limbs, 255)) \o "."
       \o FmtD(AndLow(ShrLimbs(ip.limbs, 8), 255)) \o "."
       \o FmtD(AndLow(ShrLimbs(ip.limbs, 16), 255)) \o "."
       \o FmtD(LimbsValue(ShrLimbs(ip.limbs, 24))))

IPAddress(ip) ==
  StrV(FmtD(LimbsValue(ShrLimbs(ip.limbs, 24))) \o "."
       \o FmtD(AndLow(ShrLimbs(ip.limbs, 16), 255)) \o "."
       \o FmtD(AndLow(ShrLimbs(ip.limbs, 8), 255)) \o "."
       \o FmtD(AndLow(ip.limbs, 255)))

Stations(stat) ==
  TupleV([i \in 1..8 |-> IntV(BitAnd(stat.v, Shl(1, i - 1)))])

Nop(val) == val

\* RainDelaySet with floor division (// 60) in place of int(x / 60).
RainDelaySet_floor(dt, now) ==
  IF ~Truthy(dt) THEN IntV(0)
  ELSE IntV(TotalSeconds(DateTimeDiff(dt, now)).whole \div 60)

RainDelaySet(dt, now) ==
  IF ~Truthy(dt) THEN IntV(0)
  ELSE IntV(IntOfQuotient(TotalSeconds(DateTimeDiff(dt, now)), 60))

---------------------------------------------------------------------------
(* dict operations (insertion-ordered keys) *)

DictHas(d, k) == \E i \in DOMAIN d.keys : d.keys[i] = k
DictGet(d, k) == d.items[k]
DictSet(d, k, v) ==
  DictV(IF DictHas(d, k) THEN d.keys ELSE Append(d.keys, k),
        [x \in (DOMAIN d.items) \cup {k} |-> IF x = k THEN v ELSE d.items[x]])

\* str(x), as used to build the query string.
PyStr(x) ==
  CASE x.t = "str" -> x.v
    [] x.t = "int" -> FmtD(x.v)
    [] x.t = "bool" -> IF x.v THEN "True" ELSE "False"
    [] x.t = "NoneType" -> "None"

---------------------------------------------------------------------------
(* Module constants and the descriptors *)

STATUS_SUCCESS == 1

STATUS_CODES ==
  (1 :> "Success")
  @@ (2 :> "Unauthorized (e.g. missing password or password is incorrect)")
  @@ (3 :> "Mismatch (e.g. new password and confirmation password do not match)")
  @@ (16 :> "Data Missing (e.g. missing required parameters)")
  @@ (17 :> "Out of Range (e.g. value exceeds the acceptable range)")
  @@ (18 :> "Data Format Error (e.g. provided data does not match required format)")
  @@ (19 :> "RF code error (e.g. RF code does not match required format)")
  @@ (32 :> "Page Not Found (e.g. page not found or requested file missing)")
  @@ (48 :> "Not Permitted (e.g. cannot operate on the requested station)")

FieldDescriptor(tag, type) == [tag |-> tag, type |-> type]

\* Calling a descriptor's _type on x: the builtins int, bool, str and the
\* codec functions.  A TypeError is what the callable raises on an operand
\* it cannot work with.
CallType(type, x, now) ==
  CASE type = "int" ->
         IF x.t = "int" THEN Return(x)
         ELSE IF x.t = "bool" THEN Return(IntV(IF x.v THEN 1 ELSE 0))
         ELSE Raise("TypeError", <<>>)
    [] type = "bool" -> Return(BoolV(Truthy(x)))
    [] type = "str" -> Return(StrV(PyStr(x)))
    [] type = "OSDateTime" ->
         IF x.t = "int" THEN Return(OSDateTime(x)) ELSE Raise("TypeError", <<>>)
    [] type = "SunTime" ->
         IF x.t = "int" THEN Return(SunTime(x, now)) ELSE Raise("TypeError", <<>>)
    [] type = "IPAddress" ->
         IF x.t = "int" THEN Return(IPAddress(x)) ELSE Raise("TypeError", <<>>)
    [] type = "Stations" ->
         IF x.t = "int" THEN Return(Stations(x)) ELSE Raise("TypeError", <<>>)
    [] type = "Nop" -> Return(Nop(x))
    [] type = "RainDelaySet" ->
         IF ~Truthy(x) \/ x.t = "datetime" THEN Return(RainDelaySet(x, now))
         ELSE Raise("TypeError", <<>>)

\* FieldGetDescriptor.getAsType: self._type(data[self._tag])
getAsType(self, data, now) ==
  IF ~DictHas(data, self.tag) THEN Raise("KeyError", <<self.tag>>)
  ELSE CallType(self.type, DictGet(data, self.tag), now)

\* FieldSetDescriptor.setAsType: data[self._tag] = self._type(data).
\* The callable is applied to the dict `data` itself.  Gives the outcome and
\* the dict as the call leaves it.
setAsType(self, data, now) ==
  LET r == CallType(self.type, data, now)
  IN IF r.kind = "raise" THEN [outcome |-> r, data |-> data]
     ELSE [outcome |-> Return(NoneV), data |-> DictSet(data, self.tag, r.value)]

my_get_args ==
  [device_time |-> FieldDescriptor("devt", "OSDateTime"),
   board_count |-> FieldDescriptor("nbrd", "int"),
   enable |-> FieldDescriptor("en", "bool"),
   rain_delay |-> FieldDescriptor("rd", "bool"),
   rain_sensor |-> FieldDescriptor("rs", "bool"),
   rain_resume |-> FieldDescriptor("rdst", "str"),
   location |-> FieldDescriptor("loc", "str"),
   weather_id |-> FieldDescriptor("wtkey", "str"),
   sunrise |-> FieldDescriptor("sunrise", "SunTime"),
   sunset |-> FieldDescriptor("sunset", "SunTime"),
   external_ip |-> FieldDescriptor("eip", "IPAddress"),
   last_weather |-> FieldDescriptor("lwc", "OSDateTime"),
   last_good_weather |-> FieldDescriptor("lswc", "OSDateTime"),
   station_status |-> FieldDescriptor("sbits", "Stations"),
   program_status |-> FieldDescriptor("ps", "Nop"),
   last_run |-> FieldDescriptor("lrun", "Nop")]

my_set_args ==
  [reset_all |-> FieldDescriptor("rsn", "int"),
   reboot |-> FieldDescriptor("rbt", "int"),
   enable |-> FieldDescriptor("en", "int"),
   rain_delay |-> FieldDescriptor("rd", "RainDelaySet"),
   remote_extension |-> FieldDescriptor("re", "int")]

\* Names the Controller class itself defines: normal attribute lookup finds
\* them without __getattr__.
ClassAttrs == {"my_get_args", "my_set_args"}

---------------------------------------------------------------------------
(* OpenSprinkler *)

\* self.hostname and self.password (the md5 hex digest, kept opaque).
Hostname == "sprinkler.local"
PasswordHash == "5f4dcc3b5aa765d61d8327deb882cf99"

\* The '&k=v' tail of the request string, over variables.items().
QueryString(variables) ==
  LET RECURSIVE tail(_)
      tail(i) ==
        IF i > Len(variables.keys) THEN ""
        ELSE "&" \o variables.keys[i] \o "="
             \o PyStr(DictGet(variables, variables.keys[i])) \o tail(i + 1)
  IN tail(1)

\* _json_get without the check of the envelope's result code.
json_get_ignoresResult(path, variables, resp) ==
  [requests |-> <<[url |-> "http://" \o Hostname \o "/" \o path \o "/?pw="
                           \o PasswordHash
                           \o (IF Truthy(variables) THEN QueryString(variables)
                               ELSE ""),
                   path |-> path, variables |-> variables]>>,
   outcome |->
     IF resp.status # 200
     THEN Raise("ValueError", <<"Failed GET request with status %d.", resp.status>>)
     ELSE Return(resp.body)]

\* _json_get that sends the request once more when the HTTP status is not 200.
json_get_retries(path, variables, resp) ==
  LET request ==
        [url |-> "http://" \o Hostname \o "/" \o path \o "/?pw=" \o PasswordHash
                 \o (IF Truthy(variables) THEN QueryString(variables) ELSE ""),
         path |-> path, variables |-> variables]
      first == json_get_ignoresResult(path, variables, resp).outcome
  IN [requests |-> IF resp.status # 200 THEN <<request, request>> ELSE <<request>>,
      outcome |->
        IF first.kind = "raise" THEN first
        ELSE IF DictHas(resp.body, "result")
                /\ DictGet(resp.body, "result").v # 1
        THEN Raise("ValueError", <<"Failure response (%d):%s",
                                   DictGet(resp.body, "result").v, "">>)
        ELSE first]

\* OpenSprinkler._json_get(path, variables) when the transport answers the
\* request with resp = [status, body].  Gives the requests it issued and
\* its outcome.
json_get(path, variables, resp) ==
  LET requests_str ==
        "http://" \o Hostname \o "/" \o path \o "/?pw=" \o PasswordHash
        \o (IF Truthy(variables) THEN QueryString(variables) ELSE "")
      request == [url |-> requests_str, path |-> path, variables |-> variables]
      retval == resp.body
  IN [requests |-> <<request>>,
      outcome |->
        IF resp.status # 200
        THEN Raise("ValueError", <<"Failed GET request with status %d.", resp.status>>)
        ELSE IF DictHas(retval, "result")
                /\ DictGet(retval, "result").v # STATUS_SUCCESS
        THEN LET code == DictGet(retval, "result").v
             IN IF code \in DOMAIN STATUS_CODES
                THEN Raise("ValueError",
                           <<"Failure response (%d):%s", code, STATUS_CODES[code]>>)
                ELSE Raise("KeyError", <<code>>)
        ELSE Return(retval)]

\* self.parent._json_get(...) inside Controller: the attribute `parent` is
\* whatever the instance holds under that name.
parent_json_get(self, path, variables, resp) ==
  IF self["parent"] = ObjV("OpenSprinkler") THEN json_get(path, variables, resp)
  ELSE [requests |-> <<>>, outcome |-> Raise("AttributeError", <<"_json_get">>)]

---------------------------------------------------------------------------
(* Controller *)

\* Controller.__getattr__(name); self is the instance __dict__.
Controller_getattr(self, name, resp, now) ==
  IF name \in DOMAIN my_get_args
  THEN LET j == parent_json_get(self, "jc", NoneV, resp)
       IN IF j.outcome.kind = "raise" THEN j
          ELSE [requests |-> j.requests,
                outcome |-> getAsType(my_get_args[name], j.outcome.value, now)]
  ELSE [requests |-> <<>>, outcome |-> Return(NoneV)]

\* getattr(controller, name): normal lookup first, __getattr__ only when it
\* finds nothing.
GetAttr(self, name, resp, now) ==
  IF name \in DOMAIN self THEN [requests |-> <<>>, outcome |-> Return(self[name])]
  ELSE IF name \in ClassAttrs
  THEN [requests |-> <<>>, outcome |-> Return(ObjV("dict"))]
  ELSE Controller_getattr(self, name, resp, now)

\* Controller.__setattr__(name, value).  Gives the requests, the outcome
\* and the instance __dict__ afterwards.
Controller_setattr(self, name, value, resp, now) ==
  IF name \in DOMAIN my_set_args
  THEN LET s == setAsType(my_set_args[name], EmptyDict, now)
       IN IF s.outcome.kind = "raise"
          THEN [requests |-> <<>>, outcome |-> s.outcome, attrs |-> self]
          ELSE LET j == parent_json_get(self, "cv", s.data, resp)
               IN [requests |-> j.requests,
                   outcome |-> IF j.outcome.kind = "raise" THEN j.outcome
                               ELSE Return(NoneV),
                   attrs |-> self]
  ELSE [requests |-> <<>>, outcome |-> Return(NoneV),
        attrs |-> [x \in (DOMAIN self) \cup {name} |->
                     IF x = name THEN value ELSE self[x]]]

---------------------------------------------------------------------------
(* Inputs of the direct codec calls *)

MaxSunMinutes == 1441
MaxOffset == 130

NowSamples ==
  {DateTimeV(738000, h, m, s, us) :
     h \in {0, 6, 23}, m \in {0, 59}, s \in {0, 59}, us \in {0, 999999}}

ByteSamples == {0, 1, 10, 11, 12, 13, 127, 128, 255}

OffsetSeconds == (-MaxOffset .. MaxOffset) \cup {5399, 5400, 5401, -90000, 90000}
OffsetMicros == {0, 1, 999999}

\* A codec call waiting to be made: the function and its arguments.
CodecInputs ==
  {[fn |-> "SunTime", done |-> FALSE, arg |-> IntV(n), now |-> now] :
     n \in 0 .. MaxSunMinutes, now \in NowSamples}
  \cup {[fn |-> "IPAddress", done |-> FALSE,
         arg |-> WideV(<<b1 * 256 + b0, b3 * 256 + b2>>)] :
          b3 \in ByteSamples, b2 \in ByteSamples, b1 \in ByteSamples,
          b0 \in ByteSamples}
  \cup {[fn |-> "Stations", done |-> FALSE, arg |-> IntV(m)] : m \in 0 .. (2 ^ 8 - 1)}
  \cup {[fn |-> "RainDelaySet", done |-> FALSE, arg |-> NoneV, now |-> now] :
          now \in NowSamples}
  \cup {[fn |-> "RainDelaySet", done |-> FALSE,
         arg |-> DateTimeAdd(now, TimeDelta(0, s, us)), now |-> now,
         offset |-> [whole |-> s, micro |-> us]] :
          now \in NowSamples, s \in OffsetSeconds, us \in OffsetMicros}

CodecIdle == [fn |-> "none", done |-> TRUE]

Returned(c, ret) == [x \in (DOMAIN c) \cup {"ret"} |->
                       IF x = "ret" THEN ret ELSE IF x = "done" THEN TRUE ELSE c[x]]

CallSunTime ==
  /\ codec.fn = "SunTime" /\ ~codec.done
  /\ codec' = Returned(codec, SunTime(codec.arg, codec.now))
  /\ UNCHANGED <<attrs, last>>

CallIPAddress ==
  /\ codec.fn = "IPAddress" /\ ~codec.done
  /\ codec' = Returned(codec, IPAddress(codec.arg))
  /\ UNCHANGED <<attrs, last>>

CallStations ==
  /\ codec.fn = "Stations" /\ ~codec.done
  /\ codec' = Returned(codec, Stations(codec.arg))
  /\ UNCHANGED <<attrs, last>>

CallRainDelaySet ==
  /\ codec.fn = "RainDelaySet" /\ ~codec.done
  /\ codec' = Returned(codec, RainDelaySet(codec.arg, codec.now))
  /\ UNCHANGED <<attrs, last>>

CodecNext ==
  \/ CallSunTime
  \/ CallIPAddress
  \/ CallStations
  \/ CallRainDelaySet

---------------------------------------------------------------------------
(* Inputs of the Controller calls: what the transport answers, the names   *)
(* and values the caller passes.                                           *)

DocA ==
  DictV(<<"devt", "nbrd", "en", "rd", "rs", "rdst", "loc", "wtkey", "sunrise",
          "sunset", "eip", "lwc", "lswc", "sbits", "ps", "lrun">>,
        [devt |-> IntV(1700000000), nbrd |-> IntV(2), en |-> IntV(1),
         rd |-> IntV(0), rs |-> IntV(0), rdst |-> IntV(0),
         loc |-> StrV("Boston,MA"), wtkey |-> StrV(""),
         sunrise |-> IntV(360), sunset |-> IntV(1080),
         eip |-> WideV(<<3085, 2571>>),
         lwc |-> IntV(1700000000), lswc |-> IntV(1699990000),
         sbits |-> IntV(5),
         ps |-> TupleV(<<IntV(0), IntV(0), IntV(0)>>),
         lrun |-> TupleV(<<IntV(0), IntV(0), IntV(0), IntV(0)>>)])

DocB ==
  DictV(<<"devt", "nbrd", "en", "rd", "rs", "rdst", "loc", "wtkey", "sunrise",
          "sunset", "eip", "lwc", "lswc", "sbits", "ps", "lrun">>,
        [devt |-> IntV(86399), nbrd |-> IntV(1), en |-> IntV(0),
         rd |-> IntV(1), rs |-> IntV(1), rdst |-> IntV(1700003600),
         loc |-> StrV(""), wtkey |-> StrV("key"),
         sunrise |-> IntV(0), sunset |-> IntV(1439),
         eip |-> WideV(<<65535, 65535>>),
         lwc |-> IntV(0), lswc |-> IntV(0),
         sbits |-> IntV(192),
         ps |-> NoneV,
         lrun |-> NoneV])

ResultCodes == {0, 1, 2, 3, 4, 16, 17, 18, 19, 32, 48, 49}

Docs ==
  {DocA, DocB, EmptyDict, DictSet(DocA, "result", IntV(1)),
   DictSet(DocA, "result", IntV(2))}
  \cup {DictSet(EmptyDict, "result", IntV(c)) : c \in ResultCodes}

Responses ==
  {[status |-> 200, body |-> d] : d \in Docs}
  \cup {[status |-> st, body |-> EmptyDict] : st \in {404, 500}}

CallNow == {DateTimeV(738000, 6, 15, 30, 250000)}

GetNames == (DOMAIN my_get_args) \cup {"bogus", "reboot", "parent"}
SetNames == (DOMAIN my_set_args) \cup {"board_count", "parent", "bogus"}
SetValues == {IntV(1), DateTimeV(738000, 7, 30, 0, 0)}

---------------------------------------------------------------------------
(* The state machine *)

\* Controller.__init__: self.parent = p goes through __setattr__ and lands
\* in the instance __dict__.
Init ==
  /\ attrs = Controller_setattr(<<>>, "parent", ObjV("OpenSprinkler"),
                                [status |-> 200, body |-> EmptyDict],
                                DateTimeV(738000, 6, 0, 0, 0)).attrs
  /\ last = [op |-> "init"]
  /\ codec = CodecIdle

\* value = controller.<name>
Get ==
  \E name \in GetNames, resp \in Responses, now \in CallNow :
    LET r == GetAttr(attrs, name, resp, now)
    IN /\ last' = [op |-> "get", name |-> name, now |-> now,
                   responses |-> IF Len(r.requests) = 0 THEN <<>> ELSE <<resp>>,
                   requests |-> r.requests, outcome |-> r.outcome]
       /\ UNCHANGED <<attrs, codec>>

\* controller.<name> = value
Set ==
  \E name \in SetNames, value \in SetValues, resp \in Responses, now \in CallNow :
    LET r == Controller_setattr(attrs, name, value, resp, now)
    IN /\ last' = [op |-> "set", name |-> name, value |-> value, now |-> now,
                   responses |-> IF Len(r.requests) = 0 THEN <<>> ELSE <<resp>>,
                   requests |-> r.requests, outcome |-> r.outcome]
       /\ attrs' = r.attrs
       /\ UNCHANGED codec

Next == Get \/ Set

Spec == Init /\ [][Next]_vars

\* A direct call of one codec function on drawn arguments.
InitCodec ==
  /\ attrs = Controller_setattr(<<>>, "parent", ObjV("OpenSprinkler"),
                                [status |-> 200, body |-> EmptyDict],
                                DateTimeV(738000, 6, 0, 0, 0)).attrs
  /\ last = [op |-> "init"]
  /\ codec \in CodecInputs

SpecCodec == InitCodec /\ [][CodecNext]_vars

---------------------------------------------------------------------------
(* Properties of the codec functions, over SpecCodec *)

CodecDone(fn) == codec.fn = fn /\ codec.done

\* sum over i of (bit_i << i) of a station tuple
Repack(tuple) ==
  LET RECURSIVE sum(_)
      sum(i) == IF i > Len(tuple) THEN 0 ELSE Shl(tuple[i].v, i - 1) + sum(i + 1)
  IN sum(1)

\* C6: for every m in 0..255 the station_status decode of m is a tuple of
\* exactly 8 elements whose re-packing sum(bit_i << i) is m.
C6_StationsRoundTrip ==
  CodecDone("Stations") =>
    /\ codec.ret.t = "tuple"
    /\ Len(codec.ret.v) = 8
    /\ Repack(codec.ret.v) = codec.arg.v

---------------------------------------------------------------------------
(* Properties of the Controller calls, over Spec *)

IsCall(op) == last.op = op
Answered == Len(last.responses) > 0
HasResult(doc) == DictHas(doc, "result")
ResultOf(doc) == DictGet(doc, "result").v

\* The transport reported a failure: a status other than 200, or an
\* envelope whose result code is not 1.
ReportedFailure(resp) ==
  \/ resp.status # 200
  \/ HasResult(resp.body) /\ ResultOf(resp.body) # 1

Registered ==
  \/ IsCall("get") /\ last.name \in DOMAIN my_get_args
  \/ IsCall("set") /\ last.name \in DOMAIN my_set_args

\* C1: set(name, v) of a name in the Set registry encodes v itself and
\* submits to 'cv' the payload {wireKey: encode(v)}, one key only.
C1_SetSubmitsEncodedValue ==
  (IsCall("set") /\ last.name \in DOMAIN my_set_args) =>
    LET d == my_set_args[last.name]
        enc == CallType(d.type, last.value, last.now)
    IN enc.kind = "return" =>
         /\ Len(last.requests) = 1
         /\ last.requests[1].path = "cv"
         /\ last.requests[1].variables
              = DictV(<<d.tag>>, [k \in {d.tag} |-> enc.value])

\* C2: every get of a name in the Get registry, whatever calls came before,
\* issues one new fetch of 'jc' and returns the decode of the value in the
\* document fetched by that call.
C2_GetAlwaysFetches ==
  (IsCall("get") /\ last.name \in DOMAIN my_get_args) =>
    /\ Len(last.requests) = 1
    /\ last.requests[1].path = "jc"
    /\ last.outcome.kind = "return" =>
         last.outcome = getAsType(my_get_args[last.name],
                                  last.responses[1].body, last.now)

\* C3: a get of a name outside the Get registry and a set of a name outside
\* the Set registry each end in a NotFound error.
C3_UnknownNameIsNotFound ==
  /\ (IsCall("get") /\ last.name \notin DOMAIN my_get_args) =>
       (last.outcome.kind = "raise" /\ last.outcome.exc = "NotFound")
  /\ (IsCall("set") /\ last.name \notin DOMAIN my_set_args) =>
       (last.outcome.kind = "raise" /\ last.outcome.exc = "NotFound")

\* C4: on an HTTP 200 answer whose result code c is in the table and is not
\* 1 the call ends in an error carrying c and the table's message for c and
\* returns no value; with result 1 or absent the document comes back
\* without error (get decodes it, set completes).
C4_KnownFailureCode ==
  (~IsCall("init") /\ Answered /\ last.responses[1].status = 200) =>
    LET doc == last.responses[1].body
    IN IF HasResult(doc) /\ ResultOf(doc) # 1
       THEN ResultOf(doc) \in {2, 3, 16, 17, 18, 19, 32, 48} =>
              /\ last.outcome.kind = "raise"
              /\ last.outcome.exc = "ValueError"
              /\ last.outcome.args[2] = ResultOf(doc)
              /\ last.outcome.args[3] = STATUS_CODES[ResultOf(doc)]
              /\ ResultOf(doc) = 2 =>
                   last.outcome.args[3]
                     = "Unauthorized (e.g. missing password or password is incorrect)"
       ELSE IF IsCall("get")
            THEN last.outcome = getAsType(my_get_args[last.name], doc, last.now)
            ELSE last.outcome = Return(NoneV)

C4_Witness ==
  /\ IsCall("get") /\ Answered
  /\ last.responses[1].status = 200
  /\ HasResult(last.responses[1].body)
  /\ ResultOf(last.responses[1].body) = 2
  /\ last.outcome.kind = "raise"
  /\ last.outcome.args[2] = 2

\* C5: a result code that is neither 1 nor in the table ends the call in the
\* same kind of failure as a known code, carrying the code, not in a lookup
\* failure.
C5_UnknownCodeIsDeviceFailure ==
  (~IsCall("init") /\ Answered /\ last.responses[1].status = 200
   /\ HasResult(last.responses[1].body)
   /\ ResultOf(last.responses[1].body) \notin DOMAIN STATUS_CODES) =>
    /\ last.outcome.kind = "raise"
    /\ last.outcome.exc = "ValueError"
    /\ last.outcome.args[2] = ResultOf(last.responses[1].body)

\* C7: for a registered name, a failure reported by the transport ends the
\* call in an error after exactly one request: no second request, no value.
C7_FailureAfterOneRequest ==
  (Registered /\ Answered /\ ReportedFailure(last.responses[1])) =>
    /\ Len(last.requests) = 1
    /\ last.outcome.kind = "raise"

C7_Witness ==
  /\ IsCall("set") /\ last.name = "rain_delay" /\ Answered
  /\ last.responses[1].status = 404
  /\ Len(last.requests) = 1
  /\ last.outcome.kind = "raise"

====
